---- MODULE Spec2Model ----
(***************************************************************************)
(* Order lifecycle and inventory accounting of fastapi-vendas.             *)
(*                                                                         *)
(* The store (products, orders) holds committed rows only.  Every request  *)
(* runs in its own AsyncSession (database.py get_db): rows it loads and    *)
(* changes live in the session until commit() flushes them; the session    *)
(* is created with autoflush=False, so nothing reaches the store before    *)
(* commit().  A request is cut into steps at its awaits on the store.      *)
(* Prices are Floats in the source; the model uses whole price units.      *)
(***************************************************************************)
EXTENDS Integers, Sequences, FiniteSets, TLC

VARIABLES products, orders, clients, notifications, next_order_id, sess, last, clock,
          stock_base, rt

vars == <<products, orders, clients, notifications, next_order_id, sess, last, clock,
          stock_base, rt>>

(***************************************************************************)
(* Bounds and input domains                                                *)
(***************************************************************************)
\* largest stock an administrator sets, and largest quantity a line asks for
MaxStock == 2
\* number of ids the order sequence hands out
MaxOrders == 2
\* largest skip and largest total of the page arithmetic
MaxSkip == 6
MaxTotal == 7

Users == {1, 2}
\* ids the client sequence hands out, and client ids a request may name: 2
\* never resolves
ClientIds == {1}
RequestClientIds == ClientIds \cup {2}
Emails == {"a@x", "b@x"}
Cpfs == {"111"}
Sessions == {1, 2}
Prices == {1, 2}
Sections == {"A", "B"}
Times == {0, 1}

\* Python's None, for an optional integer and for an optional string
NoneInt == -1
NoneStr == "none"
\* a field the request body does not carry (pydantic: not in model_fields_set)
Unset == "unset"

\* ids the product sequence hands out
ProductIds == {1, 2}
\* product ids a request may name: 3 never resolves
RequestProductIds == ProductIds \cup {3}

(***************************************************************************)
(* Schemas                                                                 *)
(***************************************************************************)
OrderStatusEnum == {"pendente", "processando", "enviado", "entregue", "cancelado"}

OrderUpdate_any_string(status) == TRUE

\* OrderUpdate: status is Optional[OrderStatusEnum]; validate_status_transition
\* returns every value it is given
OrderUpdate(status) == status \in OrderStatusEnum \cup {Unset, NoneStr}

\* OrderResponse: status is a required str
OrderResponse(order) == order.status # NoneStr

\* OrderItemSchema.validate_quantity: 0 < quantity <= 1000
validate_quantity(q) == q > 0 /\ q <= 1000

validate_unique_products_off(items) == TRUE

\* OrderCreate.validate_unique_products
validate_unique_products(items) ==
    \A i, j \in 1..Len(items) : i # j => items[i].product_id # items[j].product_id

\* OrderCreate: items has min_items=1, every item passes its own validator
OrderCreate(items) ==
    /\ Len(items) >= 1
    /\ \A i \in 1..Len(items) : validate_quantity(items[i].quantity)
    /\ validate_unique_products(items)

(***************************************************************************)
(* Helpers on rows                                                         *)
(***************************************************************************)
RECURSIVE SumLines(_)
\* sum over the lines of price snapshot * quantity
SumLines(items) ==
    IF items = <<>> THEN 0
    ELSE items[1].price_at_time_of_purchase * items[1].quantity + SumLines(Tail(items))

RECURSIVE Reserved(_, _)
\* quantity of product p held by the lines of one order
Reserved(items, p) ==
    IF items = <<>> THEN 0
    ELSE (IF items[1].product_id = p THEN items[1].quantity ELSE 0) + Reserved(Tail(items), p)

RECURSIVE ReservedAll(_, _, _)
\* quantity of product p held by the lines of the orders ids of os
ReservedAll(os, ids, p) ==
    IF ids = {} THEN 0
    ELSE LET o == CHOOSE x \in ids : TRUE
         IN  Reserved(os[o].items, p) + ReservedAll(os, ids \ {o}, p)

Restrict(f, S) == [x \in S |-> f[x]]

Min(a, b) == IF a < b THEN a ELSE b

(***************************************************************************)
(* Sessions and responses                                                  *)
(***************************************************************************)
\* scalar_one_or_none() found no row
None == [client_id |-> 0, created_by_user_id |-> 0, status |-> NoneStr,
         total |-> 0, created_at |-> NoneInt, updated_at |-> NoneInt, items |-> <<>>]

IdleSession ==
    [pc |-> "idle", user |-> 0, client_id |-> 0, order_id |-> 0,
     req |-> <<>>, k |-> 0, loaded |-> <<>>, new_items |-> <<>>, total_amount |-> 0,
     db_order |-> None]

NoQuery == <<>>

\* what the caller of the last finished request received
Response(op, user, order_id, code, k) ==
    [op |-> op, user |-> user, order_id |-> order_id, code |-> code, k |-> k,
     orders |-> <<>>, total |-> 0, q |-> NoQuery, notify |-> "none", detail |-> <<>>,
     status |-> Unset, page |-> 0, page_size |-> 0, total_pages |-> 0]

NoRoundTrip == [phase |-> "none", order_id |-> 0, stock |-> <<>>]

StockLevels == [p \in DOMAIN products |-> products[p].stock_quantity]

\* select(Product).where(Product.id == pid) run in session s: the row of the
\* store, or the instance the session already holds for that identity
SelectProduct(s, pid) ==
    IF pid \in DOMAIN sess[s].loaded THEN sess[s].loaded[pid] ELSE products[pid]

\* flush of the Product instances the session changed: UPDATE ... WHERE id = pid
FlushProducts(s) ==
    [p \in DOMAIN products |->
        IF p \in DOMAIN sess[s].loaded
        THEN [products[p] EXCEPT !.stock_quantity = sess[s].loaded[p].stock_quantity]
        ELSE products[p]]

rollback_commits(s) == FlushProducts(s)

\* get_db: an exception leaving the endpoint rolls the session back, so the
\* product rows keep their committed values
rollback(s) == products

NoRequestInFlight == \A s \in Sessions : sess[s].pc = "idle"

(***************************************************************************)
(* Initial state: empty store, no request in flight                        *)
(***************************************************************************)
Init ==
    /\ products = <<>>
    /\ orders = <<>>
    /\ clients = <<>>
    /\ notifications = <<>>
    /\ next_order_id = 1
    /\ sess = [s \in Sessions |-> IdleSession]
    /\ last = Response("none", 0, 0, 0, 0)
    /\ clock = 0
    /\ stock_base = <<>>
    /\ rt = NoRoundTrip

\* the server clock that stamps created_at moves on
Tick ==
    /\ clock + 1 \in Times
    /\ clock' = clock + 1
    /\ UNCHANGED <<products, orders, next_order_id, sess, last, clients,
                   notifications,
                   stock_base, rt>>

(***************************************************************************)
(* Products (product_service.py)                                           *)
(***************************************************************************)
\* ProductCreate: price > 0 and stock_quantity >= 0
ProductCreate(price, stock) == price > 0 /\ stock >= 0

create_product(price, stock, section) ==
    /\ ProductCreate(price, stock)
    /\ Cardinality(DOMAIN products) + 1 \in ProductIds
    /\ LET id == Cardinality(DOMAIN products) + 1
       IN  products' = products @@
                  (id :> [name |-> <<"Produto", id>>, price |-> price,
                          stock_quantity |-> stock, section |-> section])
    /\ last' = Response("create_product", 0, 0, 201, 0)
    /\ UNCHANGED <<orders, next_order_id, sess, clock, clients, notifications, rt>>

\* ProductUpdate: every field optional; price > 0 and stock_quantity >= 0 when given
ProductUpdate(price, stock) ==
    /\ price # NoneInt => price > 0
    /\ stock # NoneInt => stock >= 0

\* update_product: copies the supplied fields onto the row and commits
update_product(id, price, stock) ==
    /\ ProductUpdate(price, stock)
    /\ IF id \notin DOMAIN products
       THEN /\ last' = Response("update_product", 0, 0, 404, 0)
            /\ UNCHANGED products
       ELSE /\ products' = [products EXCEPT
                   ![id].price = IF price # NoneInt THEN price ELSE @,
                   ![id].stock_quantity = IF stock # NoneInt THEN stock ELSE @]
            /\ last' = Response("update_product", 0, 0, 200, 0)
    /\ UNCHANGED <<orders, next_order_id, sess, clock, clients, notifications, rt>>

\* a line of a committed order names the product: order_items.product_id is
\* declared as a foreign key to products.id with no ON DELETE rule
ProductReferenced(os, id) ==
    \E o \in DOMAIN os : \E i \in 1..Len(os[o].items) : os[o].items[i].product_id = id

\* what the store answers to the DELETE of a product row: one that enforces
\* the declared foreign key raises IntegrityError for a referenced product,
\* one that does not (SQLite without the foreign_keys pragma, the store of
\* the repository's tests) deletes the row
DeleteOutcomes(os, id) ==
    IF ProductReferenced(os, id) THEN {"ok", "IntegrityError"} ELSE {"ok"}

\* delete_product: 404 when the row is missing; db.delete and commit otherwise,
\* with no check of its own
delete_product(id) ==
    /\ IF id \notin DOMAIN products
       THEN /\ last' = Response("delete_product", 0, 0, 404, 0)
            /\ UNCHANGED products
       ELSE \E outcome \in DeleteOutcomes(orders, id) :
               IF outcome = "IntegrityError"
               THEN /\ last' = Response("delete_product", 0, 0, 500, 0)
                    /\ UNCHANGED products
               ELSE /\ products' = Restrict(products, DOMAIN products \ {id})
                    /\ last' = Response("delete_product", 0, 0, 204, 0)
    /\ UNCHANGED <<orders, next_order_id, sess, clock, clients, notifications, rt>>

(***************************************************************************)
(* Clients (client_service.py)                                             *)
(***************************************************************************)
\* create_client: 400 when the email or the CPF is already registered
create_client(email, cpf) ==
    /\ Cardinality(DOMAIN clients) + 1 \in ClientIds
    /\ IF \/ \E c \in DOMAIN clients : clients[c].email = email
          \/ cpf # NoneStr /\ \E c \in DOMAIN clients : clients[c].cpf = cpf
       THEN /\ last' = Response("create_client", 0, 0, 400, 0)
            /\ clients' = clients
       ELSE /\ clients' = clients @@
                   (Cardinality(DOMAIN clients) + 1 :> [email |-> email, cpf |-> cpf])
            /\ last' = Response("create_client", 0, 0, 201, 0)
    /\ UNCHANGED <<products, orders, notifications, next_order_id, sess, clock,
                   stock_base, rt>>

\* ids of the client rows of the runs in which client requests interleave
ClientRowIds == {1, 2}

\* the unique indexes of clients.email and clients.cpf (NULLs never collide):
\* the rows other than id that already hold the email or the CPF
UniqueViolation(id, email, cpf) ==
    \E c \in DOMAIN clients \ {id} :
        \/ email # NoneStr /\ clients[c].email = email
        \/ cpf # NoneStr /\ clients[c].cpf = cpf

\* create_client up to its commit: the two SELECTs and the 400s
create_client_begin(s, email, cpf) ==
    /\ sess[s].pc = "idle"
    /\ Cardinality(DOMAIN clients)
          + Cardinality({r \in Sessions : sess[r].pc = "create_client"}) + 1 \in ClientRowIds
    /\ IF \E c \in DOMAIN clients : clients[c].email = email
       THEN /\ last' = [Response("create_client", 0, 0, 400, 0)
                           EXCEPT !.detail = <<"Email ja cadastrado.">>]
            /\ sess' = sess
       ELSE IF cpf # NoneStr /\ \E c \in DOMAIN clients : clients[c].cpf = cpf
       THEN /\ last' = [Response("create_client", 0, 0, 400, 0)
                           EXCEPT !.detail = <<"CPF ja cadastrado.">>]
            /\ sess' = sess
       ELSE /\ sess' = [sess EXCEPT ![s] =
                   [IdleSession EXCEPT !.pc = "create_client", !.req = <<email, cpf>>]]
            /\ last' = last
    /\ UNCHANGED <<products, orders, clients, notifications, next_order_id, clock,
                   stock_base, rt>>

\* db.add(new_client); commit(): the INSERT, refused by the store when a unique
\* index is violated; nothing catches the IntegrityError
create_client_commit(s) ==
    /\ sess[s].pc = "create_client"
    /\ LET email == sess[s].req[1]
           cpf == sess[s].req[2]
       IN  IF UniqueViolation(0, email, cpf)
           THEN /\ clients' = clients
                /\ last' = Response("create_client", 0, 0, 500, 0)
           ELSE /\ clients' = clients @@
                       (Cardinality(DOMAIN clients) + 1 :> [email |-> email, cpf |-> cpf])
                /\ last' = Response("create_client", 0, 0, 201, 0)
    /\ sess' = [sess EXCEPT ![s] = IdleSession]
    /\ UNCHANGED <<products, orders, notifications, next_order_id, clock,
                   stock_base, rt>>

\* update_client up to its commit: email and cpf are None when not supplied; a
\* supplied value that differs from the row's is looked up among the other
\* rows and, when free, assigned to the instance of the session
update_client_begin(s, id, email, cpf) ==
    /\ sess[s].pc = "idle"
    /\ IF id \notin DOMAIN clients
       THEN /\ last' = Response("update_client", 0, 0, 404, 0)
            /\ sess' = sess
       ELSE LET new_email == IF email # NoneStr /\ email # clients[id].email
                             THEN email ELSE NoneStr
                new_cpf == IF cpf # NoneStr /\ cpf # clients[id].cpf
                           THEN cpf ELSE NoneStr
            IN  IF UniqueViolation(id, new_email, NoneStr)
                THEN /\ last' = [Response("update_client", 0, 0, 400, 0)
                                    EXCEPT !.detail = <<"Email ja cadastrado.">>]
                     /\ sess' = sess
                ELSE IF UniqueViolation(id, NoneStr, new_cpf)
                THEN /\ last' = [Response("update_client", 0, 0, 400, 0)
                                    EXCEPT !.detail = <<"CPF ja cadastrado.">>]
                     /\ sess' = sess
                ELSE /\ sess' = [sess EXCEPT ![s] =
                            [IdleSession EXCEPT !.pc = "update_client", !.client_id = id,
                                                !.req = <<new_email, new_cpf>>]]
                     /\ last' = last
    /\ UNCHANGED <<products, orders, clients, notifications, next_order_id, clock,
                   stock_base, rt>>

\* commit(): the UPDATE of the columns the session changed, refused by the
\* store when a unique index is violated
update_client_commit(s) ==
    /\ sess[s].pc = "update_client"
    /\ LET id == sess[s].client_id
           email == sess[s].req[1]
           cpf == sess[s].req[2]
       IN  IF UniqueViolation(id, email, cpf)
           THEN /\ clients' = clients
                /\ last' = Response("update_client", 0, 0, 500, 0)
           ELSE /\ clients' = [clients EXCEPT
                       ![id].email = IF email # NoneStr THEN email ELSE @,
                       ![id].cpf = IF cpf # NoneStr THEN cpf ELSE @]
                /\ last' = Response("update_client", 0, 0, 200, 0)
    /\ sess' = [sess EXCEPT ![s] = IdleSession]
    /\ UNCHANGED <<products, orders, notifications, next_order_id, clock,
                   stock_base, rt>>

(***************************************************************************)
(* OrderService.create_order                                               *)
(***************************************************************************)
InsufficientStock_off_by_one(product, quantity) == product.stock_quantity + 1 < quantity

\* if product.stock_quantity < item_data.quantity
InsufficientStock(product, quantity) == product.stock_quantity < quantity

\* detail=f"Estoque insuficiente para o produto {product.name}. Disponível:
\* {product.stock_quantity}"
insufficient_stock_detail(product) ==
    <<"Estoque insuficiente", product.name, product.stock_quantity>>

reserve_twice(product, quantity) ==
    [product EXCEPT !.stock_quantity = @ - 2 * quantity]

\* product.stock_quantity -= item_data.quantity
reserve(product, quantity) == [product EXCEPT !.stock_quantity = @ - quantity]

item_total_unit(price, quantity) == price

\* item_total = price_at_time * item_data.quantity
item_total(price, quantity) == price * quantity

\* a body the OrderCreate schema rejects is answered with 422 before the
\* handler runs; otherwise the Order instance is added to the session
create_order_begin(s, user, client_id, items) ==
    /\ sess[s].pc = "idle"
    /\ next_order_id <= MaxOrders
    /\ IF ~OrderCreate(items)
       THEN /\ last' = Response("create", user, 0, 422, 0)
            /\ sess' = sess
       ELSE /\ sess' = [sess EXCEPT ![s] =
                  [IdleSession EXCEPT !.pc = "create", !.user = user,
                                      !.client_id = client_id, !.req = items, !.k = 1]]
            /\ last' = last
    /\ UNCHANGED <<products, orders, next_order_id, clock, clients,
                   notifications, stock_base, rt>>

\* one pass of the loop over order.items
create_order_line(s) ==
    /\ sess[s].pc = "create"
    /\ sess[s].k <= Len(sess[s].req)
    /\ LET item_data == sess[s].req[sess[s].k] IN
       IF item_data.product_id \notin DOMAIN products
       THEN \* HTTPException 404 leaves the endpoint
            /\ sess' = [sess EXCEPT ![s] = IdleSession]
            /\ products' = rollback(s)
            /\ last' = Response("create", sess[s].user, 0, 404, sess[s].k)
       ELSE LET product == SelectProduct(s, item_data.product_id) IN
            IF InsufficientStock(product, item_data.quantity)
            THEN \* HTTPException 400 leaves the endpoint
                 /\ sess' = [sess EXCEPT ![s] = IdleSession]
                 /\ products' = rollback(s)
                 /\ last' = [Response("create", sess[s].user, 0, 400, sess[s].k)
                                EXCEPT !.detail = insufficient_stock_detail(product)]
            ELSE LET price_at_time == product.price
                     db_order_item == [product_id |-> item_data.product_id,
                                       quantity |-> item_data.quantity,
                                       price_at_time_of_purchase |-> price_at_time]
                 IN  /\ sess' = [sess EXCEPT
                           ![s].total_amount = @ + item_total(price_at_time, item_data.quantity),
                           ![s].new_items = Append(@, db_order_item),
                           ![s].loaded = (item_data.product_id :>
                                            reserve(product, item_data.quantity)) @@ @,
                           ![s].k = @ + 1]
                     /\ UNCHANGED <<products, last>>
    /\ UNCHANGED <<orders, next_order_id, clock, clients, notifications, stock_base, rt>>

\* The mapped Order carries client_id without naming clients as its parent, so
\* what the store answers to an INSERT whose client_id names no client depends
\* on the schema it was created with: a store that holds the foreign key raises
\* IntegrityError, one that does not accepts the row.
CommitOutcomes(client_id) ==
    IF client_id \in DOMAIN clients THEN {"ok"} ELSE {"ok", "IntegrityError"}

\* the products the flush writes to still exist: the UPDATE of a product row
\* that was deleted meanwhile matches no row, and the INSERT of a line that
\* names it breaks the foreign key of order_items.product_id
FlushTargetsExist(s) ==
    /\ DOMAIN sess[s].loaded \subseteq DOMAIN products
    /\ \A i \in 1..Len(sess[s].new_items) :
          sess[s].new_items[i].product_id \in DOMAIN products

\* commit(): INSERT of the order and its items, UPDATE of the changed products;
\* refresh(db_order) reloads the committed row into the session
create_order_commit(s) ==
    /\ sess[s].pc = "create"
    /\ sess[s].k > Len(sess[s].req)
    /\ \E outcome \in IF FlushTargetsExist(s) THEN CommitOutcomes(sess[s].client_id)
                       ELSE {"IntegrityError"} :
          LET id == next_order_id
              db_order == [client_id |-> sess[s].client_id,
                           created_by_user_id |-> sess[s].user,
                           status |-> "pending",
                           total |-> sess[s].total_amount,
                           created_at |-> clock,
                           updated_at |-> NoneInt,
                           items |-> sess[s].new_items]
          IN  IF outcome = "IntegrityError"
              THEN \* the exception leaves the endpoint; the sequence value is spent
                   /\ orders' = orders
                   /\ products' = rollback(s)
                   /\ last' = Response("create", sess[s].user, 0, 500, 0)
                   /\ sess' = [sess EXCEPT ![s] = IdleSession]
              ELSE /\ orders' = orders @@ (id :> db_order)
                   /\ products' = FlushProducts(s)
                   /\ last' = last
                   /\ sess' = [sess EXCEPT ![s] =
                          [IdleSession EXCEPT !.pc = "notify", !.user = sess[s].user,
                                              !.client_id = sess[s].client_id,
                                              !.order_id = id, !.db_order = db_order]]
    /\ next_order_id' = next_order_id + 1
    /\ UNCHANGED <<clock, clients, notifications, stock_base>>

\* what send_order_creation_notification can do: the mail is sent; the SMTP
\* exchange fails and the channel swallows the exception; or an exception
\* leaves the method (message construction, the channel outside its try
\* block, asyncio.gather)
NotifyOutcomes == {"sent", "send_failed", "raised"}

recipient_email == "everlon@protonmail.com"

order_creation_notification_unsaved(order_id, order) ==
    [recipient |-> recipient_email, order_id |-> NoneInt, client_id |-> order.client_id,
     total |-> 0, status |-> order.status]

\* send_order_creation_notification(order=db_order, recipient_email=...): the
\* message names the order's id, client, status and total
order_creation_notification(order_id, order) ==
    [recipient |-> recipient_email, order_id |-> order_id, client_id |-> order.client_id,
     total |-> order.total, status |-> order.status]

\* create_order awaits the notification without a try block: an exception
\* that leaves it leaves the endpoint too
respond_after_notification(outcome) == IF outcome = "raised" THEN 500 ELSE 201

\* await self.notification_service.send_order_creation_notification(...); return
create_order_notify(s) ==
    /\ sess[s].pc = "notify"
    /\ notifications' = Append(notifications,
                               order_creation_notification(sess[s].order_id,
                                                           sess[s].db_order))
    /\ \E outcome \in NotifyOutcomes :
          last' = [Response("create", sess[s].user, sess[s].order_id,
                            respond_after_notification(outcome), 0)
                      EXCEPT !.notify = outcome]
    /\ sess' = [sess EXCEPT ![s] = IdleSession]
    /\ UNCHANGED <<products, orders, clients, next_order_id, clock, stock_base, rt>>

(***************************************************************************)
(* OrderService.get_order_by_id, update_order                              *)
(***************************************************************************)
get_order_by_id_any_user(os, order_id, user) ==
    IF order_id \in DOMAIN os THEN os[order_id] ELSE None

\* select(Order).where(Order.id == order_id, Order.created_by_user_id == user)
get_order_by_id(os, order_id, user) ==
    IF order_id \in DOMAIN os /\ os[order_id].created_by_user_id = user
    THEN os[order_id]
    ELSE None

\* GET /orders/{id}: 404 "Pedido nao encontrado" when the service returns None;
\* a row that OrderResponse cannot serialise ends in a server error
GetResponse(os, user, order_id) ==
    Response("get", user, order_id,
             IF get_order_by_id(os, order_id, user) = None THEN 404
             ELSE IF OrderResponse(get_order_by_id(os, order_id, user)) THEN 200
             ELSE 500, 0)

get_order_by_id_endpoint(user, order_id) ==
    /\ last' = GetResponse(orders, user, order_id)
    /\ UNCHANGED <<products, orders, next_order_id, sess, clock, clients,
                   notifications, stock_base, rt>>

setattr_status_drops_items(order, status, now) ==
    [order EXCEPT !.status = status, !.updated_at = now, !.items = <<>>, !.total = 0]

\* setattr(order, "status", value), flushed at time now: the UPDATE sets the
\* column and the onupdate stamp updated_at
setattr_status(order, status, now) ==
    [order EXCEPT !.status = status, !.updated_at = now]

\* order_update_data.model_dump(exclude_unset=True): the values to assign, an
\* explicit null included
update_data(status) == IF status = Unset THEN {} ELSE {status}

\* update_order: the body is validated first; the row is selected by id alone,
\* every key of update_data is assigned and the row committed (an UPDATE is
\* emitted, and updated_at stamped, only when a value changed); the
\* owner-scoped get_order_by_id that follows only decides what is returned.
\* The endpoint declares response_model=OrderResponse, so a None result or a
\* row with no status cannot be serialised and the request ends in a server
\* error.
update_order(user, order_id, status) ==
    /\ IF ~OrderUpdate(status)
       THEN /\ orders' = orders
            /\ last' = [Response("update", user, order_id, 422, 0) EXCEPT !.status = status]
       ELSE IF order_id \notin DOMAIN orders
       THEN /\ orders' = orders
            /\ last' = [Response("update", user, order_id, 404, 0) EXCEPT !.status = status]
       ELSE /\ orders' =
                  IF \E v \in update_data(status) : v # orders[order_id].status
                  THEN [orders EXCEPT ![order_id] = setattr_status(@, status, clock)]
                  ELSE orders
            /\ last' = [Response("update", user, order_id,
                           IF get_order_by_id(orders', order_id, user) = None
                           THEN 500
                           ELSE IF OrderResponse(orders'[order_id]) THEN 200
                           ELSE 500, 0) EXCEPT !.status = status]
    /\ UNCHANGED <<products, next_order_id, sess, clock, clients, notifications, stock_base, rt>>

(***************************************************************************)
(* OrderService.delete_order                                               *)
(***************************************************************************)
release_nothing(product, quantity) == product

\* product.stock_quantity += item.quantity
release(product, quantity) == [product EXCEPT !.stock_quantity = @ + quantity]

delete_order_begin(s, user, order_id) ==
    /\ sess[s].pc = "idle"
    /\ LET order == get_order_by_id(orders, order_id, user) IN
       IF order = None
       THEN \* HTTPException 404 leaves the endpoint
            /\ last' = Response("delete", user, order_id, 404, 0)
            /\ products' = rollback(s)
            /\ sess' = sess
       ELSE /\ sess' = [sess EXCEPT ![s] =
                   [IdleSession EXCEPT !.pc = "delete", !.user = user,
                                       !.order_id = order_id, !.req = order.items, !.k = 1]]
            /\ UNCHANGED <<products, last>>
    /\ UNCHANGED <<orders, next_order_id, clock, clients, notifications, stock_base, rt>>

\* one pass of the loop over order_items_copy
delete_order_line(s) ==
    /\ sess[s].pc = "delete"
    /\ sess[s].k <= Len(sess[s].req)
    /\ LET item == sess[s].req[sess[s].k] IN
       IF item.product_id \in DOMAIN products
       THEN LET product == SelectProduct(s, item.product_id) IN
            sess' = [sess EXCEPT
                ![s].loaded = (item.product_id :> release(product, item.quantity)) @@ @,
                ![s].k = @ + 1]
       ELSE sess' = [sess EXCEPT ![s].k = @ + 1]
    /\ UNCHANGED <<products, orders, next_order_id, last, clock, clients,
                   notifications, stock_base, rt>>

\* commit(): DELETE of the order (its items cascade), UPDATE of the products
delete_order_commit(s) ==
    /\ sess[s].pc = "delete"
    /\ sess[s].k > Len(sess[s].req)
    /\ orders' = Restrict(orders, DOMAIN orders \ {sess[s].order_id})
    /\ products' = FlushProducts(s)
    /\ last' = Response("delete", sess[s].user, sess[s].order_id, 204, 0)
    /\ sess' = [sess EXCEPT ![s] = IdleSession]
    /\ UNCHANGED <<next_order_id, clock, clients, notifications, stock_base>>

(***************************************************************************)
(* OrderService.get_orders and GET /orders                                 *)
(***************************************************************************)
Query(skip, limit, client_id, order_id, status, section, start_date, end_date) ==
    [skip |-> skip, limit |-> limit, client_id |-> client_id, order_id |-> order_id,
     status |-> status, section |-> section,
     start_date |-> start_date, end_date |-> end_date]

OrderFilters_exclusive_dates(os, user, q, id) ==
    LET o == os[id] IN
    /\ o.created_by_user_id = user
    /\ q.client_id # NoneInt => o.client_id = q.client_id
    /\ q.order_id # NoneInt => id = q.order_id
    /\ q.status # NoneStr => o.status = q.status
    /\ q.start_date # NoneInt => o.created_at > q.start_date
    /\ q.end_date # NoneInt => o.created_at < q.end_date

\* the WHERE clause on the columns of the orders table os
OrderFilters(os, user, q, id) ==
    LET o == os[id] IN
    /\ o.created_by_user_id = user
    /\ q.client_id # NoneInt => o.client_id = q.client_id
    /\ q.order_id # NoneInt => id = q.order_id
    /\ q.status # NoneStr => o.status = q.status
    /\ q.start_date # NoneInt => o.created_at >= q.start_date
    /\ q.end_date # NoneInt => o.created_at <= q.end_date

QueryRows_without_join(os, user, q) ==
    {<<id, 0>> : id \in {i \in DOMAIN os : OrderFilters(os, user, q, i)}}

\* rows of the query: one per order, or with a section one per order line that
\* joins a product of that section
QueryRows(os, user, q) ==
    IF q.section = NoneStr
    THEN {<<id, 0>> : id \in {i \in DOMAIN os : OrderFilters(os, user, q, i)}}
    ELSE {r \in UNION {{<<id, i>> : i \in 1..Len(os[id].items)} : id \in DOMAIN os} :
            /\ OrderFilters(os, user, q, r[1])
            /\ os[r[1]].items[r[2]].product_id \in DOMAIN products
            /\ products[os[r[1]].items[r[2]].product_id].section = q.section}

\* total_query.  Without a section: count(*) over the filtered query.  With a
\* section: select(func.count(Order.id)).select_from(query.alias()) names the
\* orders table beside the aliased query, so it counts orders x query rows.
total_orders(os, user, q) ==
    IF q.section # NoneStr
    THEN Cardinality(DOMAIN os) * Cardinality(QueryRows(os, user, q))
    ELSE Cardinality(QueryRows(os, user, q))

\* the orders the page query yields after distinct()
DistinctOrders(os, user, q) == {r[1] : r \in QueryRows(os, user, q)}

\* the query has no ORDER BY: the store may yield the rows in any order
Orderings(S) ==
    {f \in [1..Cardinality(S) -> S] : \A i, j \in 1..Cardinality(S) : i # j => f[i] # f[j]}

\* offset(skip).limit(limit)
Page(rows, skip, limit) == SubSeq(rows, skip + 1, Min(skip + limit, Len(rows)))

\* page=skip // limit + 1 if limit > 0 else 1
page_number(skip, limit) == IF limit > 0 THEN (skip \div limit) + 1 ELSE 1

total_pages_floor(total, limit) == IF limit > 0 THEN total \div limit ELSE 0

\* total_pages=(total_orders + limit - 1) // limit if limit > 0 else 0
total_pages(total, limit) == IF limit > 0 THEN (total + limit - 1) \div limit ELSE 0

\* PaginatedOrderResponse(orders=..., total=..., page=..., page_size=..., total_pages=...)
PaginatedOrderResponse(user, page_orders, total, q) ==
    [Response("list", user, 0, 200, 0) EXCEPT
        !.orders = page_orders,
        !.total = total,
        !.q = q,
        !.page = page_number(q.skip, q.limit),
        !.page_size = q.limit,
        !.total_pages = total_pages(total, q.limit)]

list_orders_endpoint(user, q) ==
    /\ q.skip >= 0 /\ q.limit > 0 /\ q.limit <= 100
    /\ \E rows \in Orderings(DistinctOrders(orders, user, q)) :
          last' = IF \A i \in 1..Len(Page(rows, q.skip, q.limit)) :
                        OrderResponse(orders[Page(rows, q.skip, q.limit)[i]])
                  THEN PaginatedOrderResponse(user, Page(rows, q.skip, q.limit),
                                              total_orders(orders, user, q), q)
                  ELSE [Response("list", user, 0, 500, 0) EXCEPT !.q = q]
    /\ UNCHANGED <<products, orders, next_order_id, sess, clock, clients,
                   notifications, stock_base, rt>>

(***************************************************************************)
(* Ledger: stock_base[p] is the stock product p was created with           *)
(***************************************************************************)
TrackStock == stock_base' = [p \in DOMAIN products' |->
                                IF p \in DOMAIN products THEN stock_base[p]
                                ELSE products'[p].stock_quantity]

(***************************************************************************)
(* Round trips: rt remembers the stock levels found by the creation that   *)
(* committed last, and whether the very next change of the store was the   *)
(* deletion of that order                                                  *)
(***************************************************************************)
TrackCreated ==
    rt' = IF next_order_id \in DOMAIN orders'
          THEN [phase |-> "created", order_id |-> next_order_id, stock |-> StockLevels]
          ELSE rt

TrackDeleted(s) ==
    rt' = IF rt.phase = "created" /\ rt.order_id = sess[s].order_id
          THEN [rt EXCEPT !.phase = "deleted"]
          ELSE NoRoundTrip

(***************************************************************************)
(* Specifications                                                          *)
(***************************************************************************)
Quantities == 1..MaxStock
Stocks == 0..MaxStock
OrderIds == 1..MaxOrders

ItemInputs == [product_id : RequestProductIds, quantity : Quantities]

\* requests of one line, and of two lines that name their products in id order
OneLine == {<<a>> : a \in ItemInputs}
TwoLines ==
    {its \in {<<a, b>> : a \in ItemInputs, b \in ItemInputs} :
        its[1].product_id < its[2].product_id}
ItemLists == OneLine \cup TwoLines
\* requests of one line for product 1
SameProduct == {its \in OneLine : its[1].product_id = 1}
\* a request of one line and a request of two lines with different quantities
PricedLists ==
    {<<[product_id |-> 1, quantity |-> 2]>>,
     <<[product_id |-> 1, quantity |-> 1], [product_id |-> 2, quantity |-> 2]>>}
\* requests of one line for product 1 that take one unit or the largest stock
EdgeQuantities == {its \in SameProduct : its[1].quantity \in {1, MaxStock}}
\* requests whose lines ask for one unit each
UnitLines == {its \in ItemLists : \A i \in 1..Len(its) : its[i].quantity = 1}

\* Spec: the stock ledger; requests are served one at a time
Next ==
    \/ clients = <<>> /\ create_client("a@x", NoneStr)
    \/ \E st \in Stocks : NoRequestInFlight /\ create_product(1, st, "A") /\ TrackStock
    \/ \E its \in ItemLists, c \in DOMAIN clients :
          create_order_begin(1, 1, c, its)
    \/ create_order_line(1)
    \/ create_order_commit(1) /\ TrackCreated
    \/ create_order_notify(1)
    \/ \E o \in OrderIds : delete_order_begin(1, 1, o)
    \/ delete_order_line(1)
    \/ delete_order_commit(1) /\ TrackDeleted(1)

Spec == Init /\ [][Next]_vars

\* ConcSpec: two requests in flight at once, interleaved at their awaits, with
\* administrative product edits in between; creations run in both sessions,
\* deletions in the second
ConcNext ==
    \/ clients = <<>> /\ create_client("a@x", NoneStr)
    \/ products = <<>> /\ create_product(1, MaxStock, "A") /\ UNCHANGED stock_base
    \/ \E st \in {0, MaxStock} : update_product(1, NoneInt, st) /\ UNCHANGED stock_base
    \/ \E s \in Sessions, its \in EdgeQuantities, c \in DOMAIN clients :
          create_order_begin(s, 1, c, its)
    \/ \E s \in Sessions : create_order_line(s)
    \/ \E s \in Sessions : create_order_commit(s) /\ UNCHANGED rt
    \/ \E s \in Sessions : create_order_notify(s)
    \/ \E o \in OrderIds : delete_order_begin(2, 1, o)
    \/ delete_order_line(2)
    \/ delete_order_commit(2) /\ UNCHANGED rt

ConcSpec == Init /\ [][ConcNext]_vars

\* RaceSpec: concurrent creations alone
RaceNext ==
    \/ clients = <<>> /\ create_client("a@x", NoneStr)
    \/ \E st \in Stocks : products = <<>> /\ create_product(1, st, "A") /\ TrackStock
    \/ \E s \in Sessions, its \in SameProduct, c \in DOMAIN clients :
          create_order_begin(s, 1, c, its)
    \/ \E s \in Sessions : create_order_line(s)
    \/ \E s \in Sessions : create_order_commit(s) /\ UNCHANGED rt
    \/ \E s \in Sessions : create_order_notify(s)

RaceSpec == Init /\ [][RaceNext]_vars

\* PriceSpec: orders against products whose price changes
PriceNext ==
    \/ clients = <<>> /\ create_client("a@x", NoneStr)
    \/ \E pr \in Prices : NoRequestInFlight /\ create_product(pr, MaxStock, "A") /\ UNCHANGED stock_base
    \/ \E p \in ProductIds, pr \in Prices : NoRequestInFlight /\ update_product(p, pr, NoneInt) /\ UNCHANGED stock_base
    \/ \E its \in PricedLists, c \in DOMAIN clients :
          create_order_begin(1, 1, c, its)
    \/ create_order_line(1)
    \/ create_order_commit(1) /\ UNCHANGED rt
    \/ create_order_notify(1)
    \/ \E o \in OrderIds : NoRequestInFlight /\ update_order(1, o, "cancelado")
    \/ \E o \in OrderIds : delete_order_begin(1, 1, o)
    \/ delete_order_line(1)
    \/ delete_order_commit(1) /\ UNCHANGED rt

PriceSpec == Init /\ [][PriceNext]_vars

\* OwnerSpec: two actors working on each other's orders
OwnerNext ==
    \/ clients = <<>> /\ create_client("a@x", NoneStr)
    \/ products = <<>> /\ create_product(1, MaxStock, "A") /\ UNCHANGED stock_base
    \/ \E u \in Users, its \in SameProduct, c \in DOMAIN clients :
          create_order_begin(1, u, c, its)
    \/ create_order_line(1)
    \/ create_order_commit(1) /\ UNCHANGED rt
    \/ create_order_notify(1)
    \/ \E u \in Users, o \in OrderIds : NoRequestInFlight /\ get_order_by_id_endpoint(u, o)
    \/ \E u \in Users, o \in OrderIds, st \in {"processando", "cancelado", NoneStr} :
          NoRequestInFlight /\ update_order(u, o, st)
    \/ \E u \in Users, o \in OrderIds : delete_order_begin(1, u, o)
    \/ delete_order_line(1)
    \/ delete_order_commit(1) /\ UNCHANGED rt

OwnerSpec == Init /\ [][OwnerNext]_vars

\* ListSpec: two actors listing orders

OwnerQueries ==
    {Query(skip, limit, NoneInt, o, NoneStr, sec, NoneInt, NoneInt) :
        skip \in {0, 1}, limit \in {1, 2}, o \in OrderIds \cup {NoneInt},
        sec \in Sections \cup {NoneStr}}

ListNext ==
    \/ clients = <<>> /\ create_client("a@x", NoneStr)
    \/ \E sec \in Sections : NoRequestInFlight /\ create_product(1, MaxStock, sec) /\ UNCHANGED stock_base
    \/ \E u \in Users, its \in UnitLines, c \in DOMAIN clients :
          create_order_begin(1, u, c, its)
    \/ create_order_line(1)
    \/ create_order_commit(1) /\ UNCHANGED rt
    \/ create_order_notify(1)
    \/ \E u \in Users, q \in OwnerQueries : NoRequestInFlight /\ list_orders_endpoint(u, q)

ListSpec == Init /\ [][ListNext]_vars

\* ClientSpec: creations that name a client that exists or one that does not
ClientNext ==
    \/ clients = <<>> /\ create_client("a@x", NoneStr)
    \/ \E st \in Stocks : products = <<>> /\ create_product(1, st, "A") /\ UNCHANGED stock_base
    \/ \E its \in SameProduct, c \in RequestClientIds : create_order_begin(1, 1, c, its)
    \/ create_order_line(1)
    \/ create_order_commit(1) /\ UNCHANGED rt
    \/ create_order_notify(1)

ClientSpec == Init /\ [][ClientNext]_vars

\* requests of two lines that both name product 1
DupLines ==
    {its \in {<<a, b>> : a \in ItemInputs, b \in ItemInputs} :
        its[1].product_id = 1 /\ its[2].product_id = 1}

\* DupSpec: creations whose lines may repeat a product
DupNext ==
    \/ clients = <<>> /\ create_client("a@x", NoneStr)
    \/ \E st \in Stocks : products = <<>> /\ create_product(1, st, "A") /\ UNCHANGED stock_base
    \/ \E u \in Users, its \in SameProduct \cup DupLines, c \in DOMAIN clients :
          create_order_begin(1, u, c, its)
    \/ create_order_line(1)
    \/ create_order_commit(1) /\ UNCHANGED rt
    \/ create_order_notify(1)

DupSpec == Init /\ [][DupNext]_vars

\* SectionSpec: one actor listing by product section
SectionQueries ==
    {Query(skip, limit, NoneInt, NoneInt, NoneStr, sec, NoneInt, NoneInt) :
        skip \in {0, 1}, limit \in {1, MaxOrders}, sec \in Sections \cup {NoneStr}}

SectionNext ==
    \/ clients = <<>> /\ create_client("a@x", NoneStr)
    \/ \E sec \in Sections : NoRequestInFlight /\ create_product(1, MaxStock, sec) /\ UNCHANGED stock_base
    \/ \E its \in UnitLines, c \in DOMAIN clients : create_order_begin(1, 1, c, its)
    \/ create_order_line(1)
    \/ create_order_commit(1) /\ UNCHANGED rt
    \/ create_order_notify(1)
    \/ \E q \in SectionQueries : NoRequestInFlight /\ list_orders_endpoint(1, q)

SectionSpec == Init /\ [][SectionNext]_vars

\* FilterSpec: one actor listing with every combination of filters, over
\* orders that differ in status and creation time.  A listing leaves the store
\* as it is, so listings are taken one per store state: the next listing
\* follows some other request.
FilterQueries ==
    {Query(skip, MaxOrders, c, o, st, sec, sd, ed) :
        skip \in {0, 1}, c \in {NoneInt, 1, 2}, o \in {NoneInt, 1},
        st \in {NoneStr, "pendente", "cancelado"}, sec \in {NoneStr, "B"},
        sd \in {NoneInt, 1}, ed \in {NoneInt, 0, 1}}

FilterNext ==
    \/ clients = <<>> /\ create_client("a@x", NoneStr)
    \/ \E sec \in Sections : products = <<>> /\ create_product(1, MaxStock, sec) /\ UNCHANGED stock_base
    \/ NoRequestInFlight /\ Tick
    \/ \E c \in DOMAIN clients :
          create_order_begin(1, 1, c, <<[product_id |-> 1, quantity |-> 1]>>)
    \/ create_order_line(1)
    \/ create_order_commit(1) /\ UNCHANGED rt
    \/ create_order_notify(1)
    \/ \E o \in OrderIds : NoRequestInFlight /\ update_order(1, o, "cancelado")
    \/ \E q \in FilterQueries :
          NoRequestInFlight /\ last.op # "list" /\ list_orders_endpoint(1, q)

FilterSpec == Init /\ [][FilterNext]_vars

\* bodies of PUT /orders/{id}: no status key, a null, members of the
\* enumeration, and strings that are not members
StatusInputs == {Unset, NoneStr, "entregue", "cancelado", "cancelled"}

\* UpdateSpec: status updates of the orders of actor 1, by both actors
UpdateNext ==
    \/ clients = <<>> /\ create_client("a@x", NoneStr)
    \/ products = <<>> /\ create_product(1, MaxStock, "A") /\ UNCHANGED stock_base
    \/ NoRequestInFlight /\ Tick
    \/ \E its \in SameProduct, c \in DOMAIN clients : create_order_begin(1, 1, c, its)
    \/ create_order_line(1)
    \/ create_order_commit(1) /\ UNCHANGED rt
    \/ create_order_notify(1)
    \/ \E u \in Users, o \in OrderIds, st \in StatusInputs :
          NoRequestInFlight /\ update_order(u, o, st)
    \/ \E o \in OrderIds : delete_order_begin(1, 1, o)
    \/ delete_order_line(1)
    \/ delete_order_commit(1) /\ UNCHANGED rt

UpdateSpec == Init /\ [][UpdateNext]_vars

\* requests for product 1 alone, and requests that reserve product 1 and then
\* fail on a product that does not exist
FailingLists ==
    SameProduct \cup {<<a, [product_id |-> 3, quantity |-> 1]>> : a \in {x[1] : x \in SameProduct}}

\* IsolationSpec: creations in two sessions, some of them failing after their
\* first line, while a reader asks for orders between any two of their steps
IsolationNext ==
    \/ clients = <<>> /\ create_client("a@x", NoneStr)
    \/ products = <<>> /\ create_product(1, MaxStock, "A") /\ UNCHANGED stock_base
    \/ \E s \in Sessions, its \in FailingLists, c \in DOMAIN clients :
          create_order_begin(s, 1, c, its)
    \/ \E s \in Sessions : create_order_line(s)
    \/ \E s \in Sessions : create_order_commit(s) /\ UNCHANGED rt
    \/ \E s \in Sessions : create_order_notify(s)
    \/ \E o \in OrderIds : get_order_by_id_endpoint(1, o)

IsolationSpec == Init /\ [][IsolationNext]_vars

\* RefSpec: products are deleted while orders that name them are created and
\* deleted.  Products are created before the first deletion, so that the
\* number of rows still tells the next value of the id sequence.
RefNext ==
    \/ clients = <<>> /\ create_client("a@x", NoneStr)
    \/ last.op \in {"create_client", "create_product"}
          /\ create_product(1, MaxStock, "A") /\ UNCHANGED stock_base
    \/ \E its \in UnitLines, c \in DOMAIN clients : create_order_begin(1, 1, c, its)
    \/ create_order_line(1)
    \/ create_order_commit(1) /\ UNCHANGED rt
    \/ create_order_notify(1)
    \/ \E o \in OrderIds : delete_order_begin(2, 1, o)
    \/ delete_order_line(2)
    \/ delete_order_commit(2) /\ UNCHANGED rt
    \/ \E p \in ProductIds : delete_product(p) /\ UNCHANGED stock_base

RefSpec == Init /\ [][RefNext]_vars

\* ClientRaceSpec: create-client and update-client requests in two sessions,
\* interleaved between their lookups and their commits
ClientRaceNext ==
    \/ \E s \in Sessions, e \in Emails, cpf \in Cpfs \cup {NoneStr} :
          create_client_begin(s, e, cpf)
    \/ \E s \in Sessions : create_client_commit(s)
    \/ \E s \in Sessions, id \in ClientRowIds, e \in Emails \cup {NoneStr},
          cpf \in Cpfs \cup {NoneStr} :
          update_client_begin(s, id, e, cpf)
    \/ \E s \in Sessions : update_client_commit(s)

ClientRaceSpec == Init /\ [][ClientRaceNext]_vars

\* DelRaceSpec: orders are created one at a time, with no other request in
\* flight, and deleted by their owner in two sessions at once
DelRaceNext ==
    \/ clients = <<>> /\ create_client("a@x", NoneStr)
    \/ products = <<>> /\ create_product(1, MaxStock, "A") /\ UNCHANGED stock_base
    \/ \E its \in SameProduct, c \in DOMAIN clients :
          NoRequestInFlight /\ create_order_begin(1, 1, c, its)
    \/ create_order_line(1)
    \/ create_order_commit(1) /\ UNCHANGED rt
    \/ create_order_notify(1)
    \/ \E s \in Sessions, o \in OrderIds :
          sess[1].pc \in {"idle", "delete"} /\ delete_order_begin(s, 1, o)
    \/ \E s \in Sessions : delete_order_line(s)
    \/ \E s \in Sessions : delete_order_commit(s) /\ UNCHANGED rt

DelRaceSpec == Init /\ [][DelRaceNext]_vars

\* pages of one order each and pages of all orders, with and without the
\* section filter
PageQueries ==
    {Query(skip, limit, NoneInt, NoneInt, NoneStr, sec, NoneInt, NoneInt) :
        skip \in 0..(MaxOrders - 1), limit \in {1, MaxOrders}, sec \in {NoneStr, "A"}}

\* PageSpec: an actor walks through the pages of their orders
PageNext ==
    \/ clients = <<>> /\ create_client("a@x", NoneStr)
    \/ \E sec \in Sections :
          products = <<>> /\ create_product(1, MaxStock, sec) /\ UNCHANGED stock_base
    \/ \E c \in DOMAIN clients :
          create_order_begin(1, 1, c, <<[product_id |-> 1, quantity |-> 1]>>)
    \/ create_order_line(1)
    \/ create_order_commit(1) /\ UNCHANGED rt
    \/ create_order_notify(1)
    \/ \E q \in PageQueries : NoRequestInFlight /\ list_orders_endpoint(1, q)

PageSpec == Init /\ [][PageNext]_vars

\* values of limit: the smallest, small ones and the largest the endpoint admits
Limits == {1, 2, 3, 100}

\* ArithSpec: the page arithmetic of GET /orders on its own.  A run starts
\* where get_orders has returned a total for a request with some skip and
\* limit, and its one step builds the response.
ArithInit ==
    /\ products = <<>>
    /\ orders = <<>>
    /\ clients = <<>>
    /\ notifications = <<>>
    /\ next_order_id = 1
    /\ sess = [s \in Sessions |-> IdleSession]
    /\ last \in {[Response("get_orders", 1, 0, 0, 0) EXCEPT
                     !.total = total,
                     !.q = Query(skip, limit, NoneInt, NoneInt, NoneStr, NoneStr,
                                 NoneInt, NoneInt)] :
                     skip \in 0..MaxSkip, limit \in Limits, total \in 0..MaxTotal}
    /\ clock = 0
    /\ stock_base = <<>>
    /\ rt = NoRoundTrip

ArithNext ==
    /\ last.op = "get_orders"
    /\ last' = PaginatedOrderResponse(last.user, last.orders, last.total, last.q)
    /\ UNCHANGED <<products, orders, clients, notifications, next_order_id, sess,
                   clock, stock_base, rt>>

ArithSpec == ArithInit /\ [][ArithNext]_vars

(***************************************************************************)
(* Properties                                                              *)
(***************************************************************************)

\* C1: order creation is all-or-nothing.  While a create request is being
\* processed, and in the step in which it ends with 404 (product of line k
\* missing) or 400 (line k exceeds the stock), the committed product rows and
\* the committed orders do not change: no order or line of the request exists
\* and every stock, the stock of lines 1..k-1 included, is what it was before.
C1_AllOrNothing ==
    [][\A s \in Sessions :
          (/\ sess[s].pc = "create"
           /\ sess'[s] # sess[s]
           /\ \/ sess'[s].pc = "create"
              \/ /\ sess'[s].pc = "idle"
                 /\ last'.op = "create" /\ last'.code \in {400, 404})
          => /\ products' = products
             /\ orders' = orders
             /\ next_order_id' = next_order_id]_vars

\* a create request has failed at its second line, after reserving the first
C1_Witness ==
    /\ last.op = "create"
    /\ last.code \in {400, 404}
    /\ last.k = 2
    /\ products # <<>>

\* C2: two concurrent creations for the same product never hold, together,
\* more than the product's stock: when the quantities of two requests exceed
\* the stock together, at most one of the two orders is committed.
C2_NoOversell ==
    \A p \in DOMAIN products :
        ReservedAll(orders, DOMAIN orders, p) <= stock_base[p]

\* C3: every product's stock_quantity is >= 0 in every reachable state, under
\* any interleaving of order creations, order deletions, product creation and
\* product updates.
C3_StockNonNegative ==
    \A p \in DOMAIN products : products[p].stock_quantity >= 0

\* the stock is exhausted while a creation and a deletion are both in flight,
\* each holding a changed copy of the product row
C3_Witness ==
    /\ 1 \in DOMAIN products
    /\ products[1].stock_quantity = 0
    /\ \E s, d \in Sessions :
          /\ sess[s].pc = "create" /\ 1 \in DOMAIN sess[s].loaded
          /\ sess[d].pc = "delete" /\ 1 \in DOMAIN sess[d].loaded

\* C4: stock conservation.  With requests served one at a time and no
\* administrative stock edit, for every product the current stock plus the
\* quantities of all existing order lines naming it equals its initial stock.
C4_StockConservation ==
    \A p \in DOMAIN products :
        products[p].stock_quantity + ReservedAll(orders, DOMAIN orders, p) = stock_base[p]

\* an order has been deleted while another order still holds stock
C4_Witness ==
    /\ last.op = "delete" /\ last.code = 204
    /\ \E o \in DOMAIN orders, p \in DOMAIN products : Reserved(orders[o].items, p) > 0

\* C5: every existing order has total = sum over its lines of snapshot *
\* quantity; when an order is created each line's snapshot is the price of its
\* product at that moment; no later step (price update, status update, other
\* creation or deletion) changes the lines or the total of an existing order.
C5_TotalAndSnapshot ==
    /\ [](\A o \in DOMAIN orders : orders[o].total = SumLines(orders[o].items))
    /\ [][/\ \A o \in DOMAIN orders' \ DOMAIN orders :
                \A i \in 1..Len(orders'[o].items) :
                    orders'[o].items[i].price_at_time_of_purchase
                        = products[orders'[o].items[i].product_id].price
          /\ \A o \in DOMAIN orders' \cap DOMAIN orders :
                /\ orders'[o].items = orders[o].items
                /\ orders'[o].total = orders[o].total]_vars

\* an order of two units whose product has changed its price since, and whose
\* status has been updated
C5_Witness ==
    \E o \in DOMAIN orders :
        /\ orders[o].status = "cancelado"
        /\ \E i \in 1..Len(orders[o].items) :
              /\ orders[o].items[i].quantity = 2
              /\ orders[o].items[i].product_id \in DOMAIN products
              /\ products[orders[o].items[i].product_id].price
                    # orders[o].items[i].price_at_time_of_purchase

\* C6: create followed by delete is a round trip.  When the order created last
\* is deleted by its creator, every product has the stock it had before the
\* creation, the order is gone and a get of it reports not-found to every actor.
C6_RoundTrip ==
    rt.phase = "deleted"
    => /\ \A p \in DOMAIN rt.stock : products[p].stock_quantity = rt.stock[p]
       /\ rt.order_id \notin DOMAIN orders
       /\ \A u \in Users : GetResponse(orders, u, rt.order_id).code = 404

\* an order of two lines has been created and then deleted
C6_Witness ==
    /\ rt.phase = "deleted"
    /\ last.op = "delete" /\ last.code = 204
    /\ DOMAIN rt.stock = ProductIds
    /\ \A p \in ProductIds : rt.stock[p] > 0

\* C7: an update requested by an actor who did not create the order reports
\* not-found and leaves the stored order, its status included, unchanged.
C7_NonOwnerUpdate ==
    [][(/\ last'.op = "update"
        /\ last' # last
        /\ last'.order_id \in DOMAIN orders
        /\ orders[last'.order_id].created_by_user_id # last'.user)
       => /\ last'.code = 404
          /\ orders' = orders]_vars

\* C8: what get answers to an actor is what it would answer if the orders of
\* every other actor did not exist: another actor's order and an id that does
\* not exist give the same not-found response.
C8_GetMasksForeignOrders ==
    (last.op = "get" /\ NoRequestInFlight)
    => last = GetResponse(
                 Restrict(orders, {o \in DOMAIN orders :
                                      orders[o].created_by_user_id = last.user}),
                 last.user, last.order_id)

\* an actor has asked for an existing order of another actor
C8_Witness ==
    /\ last.op = "get"
    /\ last.code = 404
    /\ last.order_id \in DOMAIN orders
    /\ orders[last.order_id].created_by_user_id # last.user

\* C9: a delete requested by an actor who did not create the order reports
\* not-found and changes nothing: the order and its lines stay and no stock
\* moves.
C9_NonOwnerDelete ==
    [][(/\ last'.op = "delete"
        /\ last' # last
        /\ last'.order_id \in DOMAIN orders
        /\ orders[last'.order_id].created_by_user_id # last'.user)
       => /\ last'.code = 404
          /\ orders' = orders
          /\ products' = products]_vars

\* an actor has asked to delete an existing order of another actor, which holds
\* stock
C9_Witness ==
    /\ last.op = "delete"
    /\ last.code = 404
    /\ last.order_id \in DOMAIN orders
    /\ orders[last.order_id].created_by_user_id # last.user
    /\ orders[last.order_id].items # <<>>

\* C10: for every combination of filters and pagination, every order on the
\* returned page was created by the actor, and the returned total is the total
\* the same request would get if the orders of every other actor did not exist.
C10_ListScopedToActor ==
    (last.op = "list" /\ NoRequestInFlight)
    => /\ \A i \in 1..Len(last.orders) :
             /\ last.orders[i] \in DOMAIN orders
             /\ orders[last.orders[i]].created_by_user_id = last.user
       /\ last.total = total_orders(
                          Restrict(orders, {o \in DOMAIN orders :
                                               orders[o].created_by_user_id = last.user}),
                          last.user, last.q)

\* C11: a create request whose client_id names no client ends with a
\* not-found error and leaves orders and stock unchanged; checked at the step
\* that ends the request after every line passed its checks.
C11_ClientNotFound ==
    [][\A s \in Sessions :
          (/\ sess[s].pc = "create"
           /\ sess[s].k > Len(sess[s].req)
           /\ sess[s].client_id \notin DOMAIN clients
           /\ sess'[s] # sess[s])
          => /\ last'.op = "create"
             /\ last'.code = 404
             /\ orders' = orders
             /\ products' = products]_vars

\* C12: a create request that names a product twice is answered as invalid
\* input in a step that changes no stock, order or line; no order, and no
\* request being processed, has two lines for the same product.
C12_DuplicateProductRejected ==
    /\ [](/\ \A o \in DOMAIN orders :
                \A i, j \in 1..Len(orders[o].items) :
                    i # j => orders[o].items[i].product_id # orders[o].items[j].product_id
          /\ \A s \in Sessions :
                \A i, j \in 1..Len(sess[s].req) :
                    i # j => sess[s].req[i].product_id # sess[s].req[j].product_id)
    /\ [][(last' # last /\ last'.code = 422)
             => UNCHANGED <<products, orders, sess, next_order_id>>]_vars

\* a request naming product 1 twice was rejected while the product had stock
\* for both lines
C12_Witness ==
    /\ last.op = "create"
    /\ last.code = 422
    /\ 1 \in DOMAIN products
    /\ products[1].stock_quantity = MaxStock

\* C13: a single-line create for an existing product goes on to commit when
\* quantity <= stock_quantity, and the commit leaves stock_quantity - quantity
\* (0 when they are equal); when quantity > stock_quantity it ends with the
\* insufficient-stock error, whose message carries the product's name and its
\* available quantity, and the stock and the orders are unchanged.
C13_StockBoundary ==
    [][\A s \in Sessions :
          (/\ sess[s].pc = "create"
           /\ Len(sess[s].req) = 1
           /\ sess[s].req[1].product_id \in DOMAIN products
           /\ sess'[s] # sess[s])
          => LET p == sess[s].req[1].product_id
                 q == sess[s].req[1].quantity
             IN  IF sess[s].k = 1
                 THEN IF q <= products[p].stock_quantity
                      THEN /\ sess'[s].pc = "create"
                           /\ sess'[s].k = 2
                           /\ last' = last
                      ELSE /\ sess'[s].pc = "idle"
                           /\ last'.op = "create"
                           /\ last'.code = 400
                           /\ last'.detail = <<"Estoque insuficiente", products[p].name,
                                               products[p].stock_quantity>>
                           /\ products' = products
                           /\ orders' = orders
                 ELSE /\ DOMAIN orders' = DOMAIN orders \cup {next_order_id}
                      /\ Len(orders'[next_order_id].items) = 1
                      /\ orders'[next_order_id].items[1].quantity = q
                      /\ products'[p].stock_quantity = products[p].stock_quantity - q
                      /\ products'[p].stock_quantity >= 0]_vars

\* an order took the whole stock of product 1, and the next request for it
\* was refused with available quantity 0
C13_Witness ==
    /\ last.op = "create"
    /\ last.code = 400
    /\ last.detail = <<"Estoque insuficiente", <<"Produto", 1>>, 0>>
    /\ \E o \in DOMAIN orders :
          /\ Len(orders[o].items) = 1
          /\ orders[o].items[1].product_id = 1
          /\ orders[o].items[1].quantity = MaxStock

\* C14: the notification dispatcher is invoked only for an order that is
\* already committed, once per committed creation and never for a creation
\* that failed; the invocation carries the configured recipient and the
\* committed order's id, client, total and status.
C14_NotifyAfterCommit ==
    /\ [](/\ \A i, j \in 1..Len(notifications) :
                i # j => notifications[i].order_id # notifications[j].order_id
          /\ Len(notifications) + Cardinality({s \in Sessions : sess[s].pc = "notify"})
                = next_order_id - 1)
    /\ [][notifications' # notifications
             => /\ \E o \in DOMAIN orders :
                      notifications' = Append(notifications,
                          [recipient |-> "everlon@protonmail.com",
                           order_id |-> o,
                           client_id |-> orders[o].client_id,
                           total |-> orders[o].total,
                           status |-> orders[o].status])
                /\ orders' = orders
                /\ products' = products]_vars

\* a creation was notified, its order has been deleted since, and the creation
\* that came last failed at its first line
C14_Witness ==
    /\ Len(notifications) = 1
    /\ next_order_id = 2
    /\ orders = <<>>
    /\ last.op = "create"
    /\ last.code \in {400, 404}
    /\ last.k = 1

\* C15: when the notification step fails after the commit, whether the channel
\* could not send or an exception left the dispatcher, the caller still gets
\* the created order as a success and the order stays committed.
C15_NotificationFailureMasked ==
    (last.op = "create" /\ last.notify \in {"send_failed", "raised"})
    => /\ last.code = 201
       /\ last.order_id \in DOMAIN orders

\* C16: with a section filter, the returned total is the number of distinct
\* orders of the actor that have at least one line whose product is in the
\* section; an order with several such lines counts once.
C16_SectionTotalCountsOrders ==
    (last.op = "list" /\ NoRequestInFlight /\ last.q.section # NoneStr)
    => last.total =
          Cardinality({o \in DOMAIN orders :
                          /\ orders[o].created_by_user_id = last.user
                          /\ \E i \in 1..Len(orders[o].items) :
                                /\ orders[o].items[i].product_id \in DOMAIN products
                                /\ products[orders[o].items[i].product_id].section
                                      = last.q.section})

\* C17: with section = S the page holds each order at most once, and only
\* orders of the actor with at least one line whose product is in S; a page
\* that starts at 0 and is long enough holds every such order exactly once,
\* so an order with one line in A and one in B is listed under A and under B.
C17_SectionPage ==
    (last.op = "list" /\ NoRequestInFlight /\ last.q.section # NoneStr)
    => LET InSection ==
               {o \in DOMAIN orders :
                   /\ orders[o].created_by_user_id = last.user
                   /\ \E i \in 1..Len(orders[o].items) :
                         /\ orders[o].items[i].product_id \in DOMAIN products
                         /\ products[orders[o].items[i].product_id].section
                               = last.q.section}
       IN  /\ \A i, j \in 1..Len(last.orders) : i # j => last.orders[i] # last.orders[j]
           /\ \A i \in 1..Len(last.orders) : last.orders[i] \in InSection
           /\ (last.q.skip = 0 /\ last.q.limit >= Cardinality(InSection))
                 => {last.orders[i] : i \in 1..Len(last.orders)} = InSection

\* an order with a line in section A and a line in section B was listed under
\* section B, next to an order that has no line in B and is not on the page
C17_Witness ==
    /\ last.op = "list" /\ NoRequestInFlight
    /\ last.q.section = "B"
    /\ Len(last.orders) = 1
    /\ Cardinality(DOMAIN orders) = 2
    /\ \E o \in DOMAIN orders :
          /\ last.orders[1] = o
          /\ Len(orders[o].items) = 2
          /\ products[orders[o].items[1].product_id].section = "A"
          /\ products[orders[o].items[2].product_id].section = "B"
    /\ last.q.skip = 0 /\ last.q.limit = MaxOrders

\* C18: the returned total is the number of orders of the actor that satisfy
\* every supplied filter, whatever skip and limit are.
C18_TotalMatchesFilters ==
    (last.op = "list" /\ NoRequestInFlight)
    => last.total =
          Cardinality({o \in DOMAIN orders :
              /\ orders[o].created_by_user_id = last.user
              /\ last.q.client_id = NoneInt \/ orders[o].client_id = last.q.client_id
              /\ last.q.order_id = NoneInt \/ o = last.q.order_id
              /\ last.q.status = NoneStr \/ orders[o].status = last.q.status
              /\ last.q.start_date = NoneInt \/ orders[o].created_at >= last.q.start_date
              /\ last.q.end_date = NoneInt \/ orders[o].created_at <= last.q.end_date
              /\ last.q.section = NoneStr
                 \/ \E i \in 1..Len(orders[o].items) :
                       /\ orders[o].items[i].product_id \in DOMAIN products
                       /\ products[orders[o].items[i].product_id].section = last.q.section})

\* C19: the filters are optional and conjunctive, and the date bounds are
\* inclusive: the page holds only orders of the actor that satisfy every
\* supplied filter, and a page that starts at 0 and is long enough holds all
\* of them; an omitted filter excludes nothing.
C19_FiltersConjunctive ==
    (last.op = "list" /\ NoRequestInFlight)
    => LET q == last.q
           Eligible ==
               {o \in DOMAIN orders :
                   /\ orders[o].created_by_user_id = last.user
                   /\ q.client_id = NoneInt \/ orders[o].client_id = q.client_id
                   /\ q.order_id = NoneInt \/ o = q.order_id
                   /\ q.status = NoneStr \/ orders[o].status = q.status
                   /\ q.start_date = NoneInt \/ q.start_date <= orders[o].created_at
                   /\ q.end_date = NoneInt \/ orders[o].created_at <= q.end_date
                   /\ q.section = NoneStr
                      \/ \E i \in 1..Len(orders[o].items) :
                            /\ orders[o].items[i].product_id \in DOMAIN products
                            /\ products[orders[o].items[i].product_id].section = q.section}
       IN  /\ \A i \in 1..Len(last.orders) : last.orders[i] \in Eligible
           /\ (q.skip = 0 /\ q.limit >= Cardinality(Eligible))
                 => {last.orders[i] : i \in 1..Len(last.orders)} = Eligible

\* every filter was supplied; the one order on the page was created exactly at
\* start_date and at end_date, and another order of the actor was filtered out
C19_Witness ==
    /\ last.op = "list" /\ NoRequestInFlight
    /\ last.q.client_id = 1 /\ last.q.order_id = 1 /\ last.q.status = "cancelado"
    /\ last.q.section = "B" /\ last.q.start_date = 1 /\ last.q.end_date = 1
    /\ last.q.skip = 0
    /\ last.orders = <<1>>
    /\ orders[1].created_at = 1
    /\ Cardinality(DOMAIN orders) = 2

\* C20: an order is created with the pending member of the status
\* enumeration, 'pendente'; listing with status = 'pendente' returns only
\* orders in that status and, on a long enough page from 0 with no other
\* filter, every order of the actor that no update moved to another member.
C20_StartsPendente ==
    /\ []((last.op = "list" /\ NoRequestInFlight /\ last.q.status = "pendente")
            => /\ \A i \in 1..Len(last.orders) :
                     orders[last.orders[i]].status = "pendente"
               /\ (/\ last.q.skip = 0 /\ last.q.limit >= Cardinality(DOMAIN orders)
                   /\ last.q.client_id = NoneInt /\ last.q.order_id = NoneInt
                   /\ last.q.section = NoneStr
                   /\ last.q.start_date = NoneInt /\ last.q.end_date = NoneInt)
                  => \A o \in DOMAIN orders :
                        (/\ orders[o].created_by_user_id = last.user
                         /\ orders[o].status \notin OrderStatusEnum \ {"pendente"})
                        => \E i \in 1..Len(last.orders) : last.orders[i] = o)
    /\ [][\A o \in DOMAIN orders' \ DOMAIN orders :
             orders'[o].status = "pendente"]_vars

C23_PartialUpdate ==
    [][(last'.op = "update" /\ sess' = sess /\ (last' # last \/ orders' # orders))
       => /\ (/\ last'.status \in {Unset, NoneStr}
              /\ last'.order_id \in DOMAIN orders
              /\ orders[last'.order_id].created_by_user_id = last'.user)
             => orders' = orders
          /\ DOMAIN orders' = DOMAIN orders
          /\ \A o \in DOMAIN orders :
                [orders'[o] EXCEPT !.status = orders[o].status,
                                   !.updated_at = orders[o].updated_at] = orders[o]]_vars

\* C24: no request observes the partial effects of a creation.  The stock a
\* reader finds is never lower than the committed orders account for, so it
\* holds no decrement of a creation that is in flight or that failed; and a
\* step of a creation that stays in flight or ends in failure changes no
\* product row and no answer a reader of any order would get.
C24_NoPartialState ==
    /\ [](\A p \in DOMAIN products :
             products[p].stock_quantity
                >= MaxStock - ReservedAll(orders, DOMAIN orders, p))
    /\ [][(\E s \in Sessions :
              /\ sess[s].pc = "create"
              /\ sess'[s] # sess[s]
              /\ sess'[s].pc \in {"create", "idle"})
          => /\ products' = products
             /\ \A u \in Users, o \in OrderIds :
                   get_order_by_id(orders', o, u) = get_order_by_id(orders, o, u)]_vars

\* a creation in flight has reserved a unit that the store does not show, and
\* the reader was told that the order it is about to become does not exist
C24_Witness ==
    /\ \E s \in Sessions :
          /\ sess[s].pc = "create"
          /\ sess[s].k > Len(sess[s].req)
          /\ sess[s].loaded[1].stock_quantity < products[1].stock_quantity
    /\ last.op = "get" /\ last.code = 404 /\ last.order_id = next_order_id
    /\ products[1].stock_quantity = MaxStock - ReservedAll(orders, DOMAIN orders, 1)

\* C25: when the store rejects the commit of a creation, the caller is given
\* a conflict-class (client) error, not the server error of an unhandled
\* storage exception, and no order and no stock change is persisted.
C25_IntegrityErrorIsConflict ==
    [][\A s \in Sessions :
          (/\ sess[s].pc = "create"
           /\ sess[s].k > Len(sess[s].req)
           /\ sess'[s].pc = "idle")
          => /\ last'.op = "create"
             /\ last'.code \in {400, 409}
             /\ orders' = orders
             /\ products' = products]_vars

\* C26: every line of every order names a product that exists, and a request
\* to delete a product that a line of an order names leaves the product in
\* place.
C26_LinesReferToProducts ==
    /\ [](\A o \in DOMAIN orders :
             \A i \in 1..Len(orders[o].items) :
                orders[o].items[i].product_id \in DOMAIN products)
    /\ [][(last'.op = "delete_product" /\ last' # last)
          => \A p \in DOMAIN products :
                ProductReferenced(orders, p) => p \in DOMAIN products']_vars

\* C27: no two clients share an email and no two share a CPF that is not
\* null, whatever the interleaving of create-client and update-client
\* requests; and a request that would introduce a duplicate, at its lookup or
\* at its commit, is answered with the 400 "already registered" error and
\* changes no client.
C27_UniqueClients ==
    /\ [](\A c, d \in DOMAIN clients :
             c # d => /\ clients[c].email # clients[d].email
                      /\ clients[c].cpf # NoneStr => clients[c].cpf # clients[d].cpf)
    /\ [][\A s \in Sessions :
             (/\ sess[s].pc \in {"create_client", "update_client"}
              /\ sess'[s].pc = "idle"
              /\ UniqueViolation(sess[s].client_id, sess[s].req[1], sess[s].req[2]))
             => /\ last'.code = 400
                /\ clients' = clients]_vars

\* C28: the stock an order reserved is released at most once.  With orders
\* created one at a time and deleted by their owner in any interleaving, the
\* stock of a product never exceeds what it was created with less what the
\* remaining orders hold, and a delete reports success only when it removed
\* the order, so that at most one delete of an order succeeds.
C28_ReleasedOnce ==
    /\ [](\A p \in DOMAIN products :
             products[p].stock_quantity
                <= MaxStock - ReservedAll(orders, DOMAIN orders, p))
    /\ [][\A s \in Sessions :
             (/\ sess[s].pc = "delete"
              /\ sess'[s].pc = "idle"
              /\ last'.code = 204)
             => /\ sess[s].order_id \in DOMAIN orders
                /\ sess[s].order_id \notin DOMAIN orders']_vars

\* C29: paging partitions the result.  A page holds at most limit orders;
\* and when, with the store unchanged, the actor asks for the page that
\* follows the one just received (same filters, same limit, skip advanced by
\* limit), the two pages share no order, and when the two pages are long
\* enough to hold the whole result they hold every matching order.
C29_PagesPartition ==
    /\ []((last.op = "list" /\ last.code = 200) => Len(last.orders) <= last.q.limit)
    /\ [][(/\ last.op = "list" /\ last.code = 200
           /\ last'.op = "list" /\ last'.code = 200
           /\ last'.user = last.user
           /\ last'.q = [last.q EXCEPT !.skip = @ + last.q.limit])
          => LET first == {last.orders[i] : i \in 1..Len(last.orders)}
                 second == {last'.orders[i] : i \in 1..Len(last'.orders)}
                 matching == DistinctOrders(orders, last.user, last.q)
             IN  /\ first \cap second = {}
                 /\ (last.q.skip = 0 /\ 2 * last.q.limit >= Cardinality(matching))
                       => first \cup second = matching]_vars

\* C30: the page arithmetic of a list response is consistent: page_size is
\* limit, page is floor(skip / limit) + 1, and total_pages is the ceiling of
\* total / limit, which is 0 exactly when total is 0 and otherwise the one
\* number with (total_pages - 1) * limit < total <= total_pages * limit.
C30_PageArithmetic ==
    (last.op = "list" /\ last.code = 200)
    => LET skip == last.q.skip
           limit == last.q.limit
       IN  /\ last.page_size = limit
           /\ last.page = (skip \div limit) + 1
           /\ (last.page - 1) * limit <= skip /\ skip < last.page * limit
           /\ last.total_pages >= 0
           /\ last.total_pages = 0 <=> last.total = 0
           /\ last.total > 0
                 => /\ (last.total_pages - 1) * limit < last.total
                    /\ last.total <= last.total_pages * limit

\* seven orders in pages of three: the request for skip 4 is on page 2 of 3
C30_Witness ==
    /\ last.op = "list" /\ last.code = 200
    /\ last.total = 7 /\ last.q.limit = 3 /\ last.q.skip = 4
    /\ last.page = 2 /\ last.page_size = 3 /\ last.total_pages = 3

====
